---- MODULE Spec2Model ----
(***************************************************************************)
(* Model of Source/Plot/Accessary/Dib/PALETTE.CPP: the nine palette        *)
(* helpers, run against a model of the GDI objects they use (the palette   *)
(* objects, the screen device context, the system palette).  Every helper  *)
(* is single-threaded and synchronous, so each is one atomic action; the   *)
(* order of the GDI calls it makes is kept in call.log.                    *)
(***************************************************************************)
EXTENDS Integers, Sequences, FiniteSets, TLC

(* ------------------------------ bounds -------------------------------- *)
\* palette objects GDI can hold at once (CreatePalette fails when none is free)
MaxHandles == 2
\* screen device contexts GetDC(NULL) hands out before it returns NULL
MaxDC == 1
\* small entry counts 0..MaxCount (the count MAXPALETTE is always tried)
MaxCount == 1
\* entry counts above MAXPALETTE: MAXPALETTE + 1 .. MAXPALETTE + MaxOver
MaxOver == 1

(* --------------------------- program constants ------------------------ *)
\* palette.h (not among the sources): the size of every fixed descriptor
MAXPALETTE == 256
NULL == 0
PC_NOCOLLAPSE == 4

Handles == 1 .. MaxHandles
\* the stock palette a screen DC holds until another one is selected
DEFAULT_PALETTE == MaxHandles + 1
\* the non-null HDC of the screen
ScreenDC == NULL + 1

Counts == (0 .. MaxCount) \cup {MAXPALETTE}
\* the caller's colour tables are RgbTables[k], k \in TableIds
TableIds == {0, 1}
\* the flag bytes tried: none, 1 (PC_RESERVED), PC_NOCOLLAPSE
FlagBytes == {0, 1, PC_NOCOLLAPSE}

EmptyArr == [i \in {} |-> 0]

\* the caller's RGBQUAD arrays (as long as the largest count): red, green and blue differ
\* from each other, slot 0 is not black, slot 255 is not white, and the
\* reserved byte is never 0
RgbTables ==
  [k \in TableIds |->
    [i \in 0 .. MAXPALETTE + MaxOver - 1 |->
      [rgbBlue     |-> (200 + 3 * i + k) % 256,
       rgbGreen    |-> (100 + 2 * i + 5 * k) % 256,
       rgbRed      |-> (7 + i + 11 * k) % 256,
       rgbReserved |-> 85 * (k + 1)]]]

ZeroEntry == [peRed |-> 0, peGreen |-> 0, peBlue |-> 0, peFlags |-> 0]

(* ------------------------------- state -------------------------------- *)
VARIABLES
  palettes,   \* GDI palette objects: handle -> [live, pe]
  made,       \* history: the call that created the object a handle names
  dcOpen,     \* screen DCs acquired and not released
  dcPal,      \* the palette selected into the screen DC
  screen,     \* the screen device's capabilities
  sysUse,     \* the system palette use (GetSystemPaletteUse)
  sysPal,     \* the system palette, 256 entries
  hPalStatic, \* the static hPal of GetSystemPalette
  arg,        \* the caller's data: its colour table k, the count n, the flag byte
  call        \* the last call: arguments, environment outcomes, result

vars == <<palettes, made, dcOpen, dcPal, screen, sysUse, sysPal, hPalStatic, arg, call>>

Live == {h \in Handles : palettes[h].live}
Free == Handles \ Live

NoDevice == [SIZEPALETTE |-> 0, NUMCOLORS |-> 0, RC_PALETTE |-> FALSE]
NoPalette == [live |-> FALSE, pe |-> EmptyArr]
NoOrigin == "none"

NoCall ==
  [op |-> "none", hArg |-> NULL, allocOk |-> TRUE, hdc |-> NULL, dev |-> NoDevice, pre |-> {}, argPe |-> EmptyArr,
   ret |-> NULL, log |-> <<>>, desc |-> EmptyArr, out |-> EmptyArr, peTop |-> 0 - 1,
   ub |-> "none"]

(* ---------------------------- GDI, as used ---------------------------- *)
\* GetObject(hPal, sizeof(WORD), &w): the entry count of a palette object
GetObjectCount(heap, hPal) == Cardinality(DOMAIN heap[hPal].pe)

\* GetPaletteEntries(hPal, 0, n, buf): the first n entries, in PALETTEENTRY order
GetPaletteEntries(heap, hPal, n) ==
  [i \in {j \in DOMAIN heap[hPal].pe : j < n} |-> heap[hPal].pe[i]]

\* CreatePalette(&desc): GDI copies the descriptor into a new object; hNew is
\* the handle GDI picks among the free ones, or NULL when it fails
CreatePalette(heap, desc, hNew) ==
  IF hNew = NULL THEN heap
  ELSE [heap EXCEPT ![hNew] = [live |-> TRUE, pe |-> desc]]

\* SetPaletteEntries(hPal, 0, n, buf): overwrites the first n entries of the
\* object; fails, changing nothing, on a handle that names no object
SetPaletteEntries(heap, hPal, n, buf) ==
  IF hPal \notin Handles \/ ~heap[hPal].live THEN heap
  ELSE [heap EXCEPT ![hPal].pe =
          [i \in DOMAIN heap[hPal].pe |->
             IF i < n /\ i \in DOMAIN buf THEN buf[i] ELSE heap[hPal].pe[i]]]

\* GetDeviceCaps(hDC, cap) on a device
GetDeviceCaps(dev, cap) == dev[cap]

\* the devices an HDC may belong to: SIZEPALETTE, NUMCOLORS, RC_PALETTE of RASTERCAPS
PaletteDevice(n) == [SIZEPALETTE |-> MAXPALETTE, NUMCOLORS |-> n, RC_PALETTE |-> TRUE]
RgbDevice(n) == [SIZEPALETTE |-> 0, NUMCOLORS |-> n, RC_PALETTE |-> FALSE]
Devices == {PaletteDevice(20), PaletteDevice(0), RgbDevice(16), RgbDevice(2),
            RgbDevice(0), RgbDevice(0 - 1)}
ScreenDevices == {PaletteDevice(20), RgbDevice(16)}

(* ------------------------- PalEntriesOnDevice ------------------------- *)
\* a count that never falls back on NUMCOLORS (sensitivity of C7)
PalEntriesOnDeviceNoFallback(dev) == GetDeviceCaps(dev, "SIZEPALETTE")

PalEntriesOnDevice(dev) ==
  LET nColors == GetDeviceCaps(dev, "SIZEPALETTE")
  IN  IF nColors = 0 THEN GetDeviceCaps(dev, "NUMCOLORS") ELSE nColors

(* ---------------------- CreatePaletteFromRGBQUAD ---------------------- *)
\* the body of the fill loop: one RGBQUAD into one PALETTEENTRY
RgbquadToEntry(q) ==
  [peRed |-> q.rgbRed, peGreen |-> q.rgbGreen, peBlue |-> q.rgbBlue, peFlags |-> 0]

CreatePaletteFromRGBQUAD(heap, rgbqPalette, wEntries, allocOk, hNew) ==
  IF ~allocOk
  THEN [ret |-> NULL, heap |-> heap, desc |-> EmptyArr, peTop |-> 0 - 1,
        log |-> << <<"GlobalAlloc", NULL>> >>]
  ELSE LET palPalEntry == [i \in 0 .. wEntries - 1 |-> RgbquadToEntry(rgbqPalette[i])]
           \* CopyMemory(pe, ..., wEntries * sizeof(PALETTEENTRY)) into pe[256]
           peTop == wEntries - 1
           hPal == hNew
       IN  [ret |-> hPal, heap |-> CreatePalette(heap, palPalEntry, hNew),
            desc |-> palPalEntry, peTop |-> peTop,
            log |-> << <<"GlobalAlloc", 1>>, <<"CreatePalette", hPal>>,
                       <<"GlobalFree", 1>> >>]

(* ---------------------- CreateRGBQUADFromPalette ---------------------- *)
\* (LPPALETTEENTRY)rgbqPalette: GetPaletteEntries writes peRed, peGreen, peBlue,
\* peFlags over the bytes that RGBQUAD names rgbBlue, rgbGreen, rgbRed, rgbReserved
EntryBytesAsRgbquad(e) ==
  [rgbBlue |-> e.peRed, rgbGreen |-> e.peGreen, rgbRed |-> e.peBlue,
   rgbReserved |-> e.peFlags]

\* a swap loop that stops after the third statement (sensitivity of C1)
SwapRedBlueNoClear(q) ==
  LET q1 == [q  EXCEPT !.rgbReserved = q.rgbRed]
      q2 == [q1 EXCEPT !.rgbRed = q1.rgbBlue]
  IN  [q2 EXCEPT !.rgbBlue = q2.rgbReserved]

\* the body of the swap loop, statement by statement
SwapRedBlue(q) ==
  LET q1 == [q  EXCEPT !.rgbReserved = q.rgbRed]
      q2 == [q1 EXCEPT !.rgbRed = q1.rgbBlue]
      q3 == [q2 EXCEPT !.rgbBlue = q2.rgbReserved]
  IN  [q3 EXCEPT !.rgbReserved = 0]

CreateRGBQUADFromPalette(heap, hPal) ==
  LET wEntries == GetObjectCount(heap, hPal)
      got == GetPaletteEntries(heap, hPal, wEntries)
      buf == [i \in DOMAIN got |-> EntryBytesAsRgbquad(got[i])]
  IN  [ret |-> wEntries,
       out |-> [i \in DOMAIN buf |-> IF i < wEntries THEN SwapRedBlue(buf[i]) ELSE buf[i]]]

(* ------------------------ CreateSpectrumPalette ----------------------- *)
\* the step with the two ifs side by side instead of nested (sensitivity of C2)
SpectrumStepUnnested(c) ==
  LET red == (c.red + 32) % 256
      green == IF red = 0 THEN (c.green + 32) % 256 ELSE c.green
      blue == IF green = 0 THEN (c.blue + 64) % 256 ELSE c.blue
  IN  [red |-> red, green |-> green, blue |-> blue]

\* if (!(red += 32)) if (!(green += 32)) blue += 64;  on BYTEs
SpectrumStep(c) ==
  LET red == (c.red + 32) % 256
      green == IF red = 0 THEN (c.green + 32) % 256 ELSE c.green
      blue == IF red = 0 /\ green = 0 THEN (c.blue + 64) % 256 ELSE c.blue
  IN  [red |-> red, green |-> green, blue |-> blue]

\* the counters after n passes of the loop body, by halves; binding the middle
\* value through a set makes TLC compute it before the second half starts
RECURSIVE SpectrumAfter(_, _)
SpectrumAfter(c, n) ==
  IF n = 0 THEN c
  ELSE IF n = 1 THEN SpectrumStep(c)
  ELSE CHOOSE r \in {SpectrumAfter(mid, n - n \div 2) :
                       mid \in {SpectrumAfter(c, n \div 2)}} : TRUE

\* pass i stores the counters as they stand after i steps, flags 0
SpectrumEntries ==
  [i \in 0 .. MAXPALETTE - 1 |->
     LET c == SpectrumAfter([red |-> 0, green |-> 0, blue |-> 0], i)
     IN  [peRed |-> c.red, peGreen |-> c.green, peBlue |-> c.blue, peFlags |-> 0]]

\* a builder that returns at once when CreatePalette fails, keeping the
\* descriptor (sensitivity of C10)
CreateSpectrumPaletteNoFree(heap, allocOk, hNew) ==
  IF ~allocOk
  THEN [ret |-> NULL, heap |-> heap, desc |-> EmptyArr,
        log |-> << <<"GlobalAlloc", NULL>> >>]
  ELSE [ret |-> hNew, heap |-> CreatePalette(heap, SpectrumEntries, hNew),
        desc |-> SpectrumEntries,
        log |-> IF hNew = NULL
                THEN << <<"GlobalAlloc", 1>>, <<"CreatePalette", hNew>> >>
                ELSE << <<"GlobalAlloc", 1>>, <<"CreatePalette", hNew>>,
                        <<"GlobalFree", 1>> >>]

CreateSpectrumPalette(heap, allocOk, hNew) ==
  IF ~allocOk
  THEN [ret |-> NULL, heap |-> heap, desc |-> EmptyArr,
        log |-> << <<"GlobalAlloc", NULL>> >>]
  ELSE [ret |-> hNew, heap |-> CreatePalette(heap, SpectrumEntries, hNew),
        desc |-> SpectrumEntries,
        log |-> << <<"GlobalAlloc", 1>>, <<"CreatePalette", hNew>>,
                   <<"GlobalFree", 1>> >>]

(* ----------------------------- CopyPalette ---------------------------- *)
\* a copy that hands the source handle back (sensitivity of C3)
CopyPaletteAlias(heap, hPal, allocOk, hNew) ==
  IF ~allocOk
  THEN [ret |-> NULL, heap |-> heap, desc |-> EmptyArr,
        log |-> << <<"GlobalAlloc", NULL>> >>]
  ELSE [ret |-> IF hNew = NULL THEN NULL ELSE hPal, heap |-> heap,
        desc |-> heap[hPal].pe,
        log |-> << <<"GlobalAlloc", 1>>, <<"CreatePalette", hNew>>,
                   <<"GlobalFree", 1>> >>]

CopyPalette(heap, hPal, allocOk, hNew) ==
  LET iNumEntries == GetObjectCount(heap, hPal)
  IN  IF ~allocOk
      THEN [ret |-> NULL, heap |-> heap, desc |-> EmptyArr,
            log |-> << <<"GlobalAlloc", NULL>> >>]
      ELSE LET got == GetPaletteEntries(heap, hPal, iNumEntries)
               \* palNumEntries is what GetPaletteEntries returns
               palNumEntries == Cardinality(DOMAIN got)
               palPalEntry == [i \in 0 .. palNumEntries - 1 |-> got[i]]
           IN  [ret |-> hNew, heap |-> CreatePalette(heap, palPalEntry, hNew),
                desc |-> palPalEntry,
                log |-> << <<"GlobalAlloc", 1>>, <<"CreatePalette", hNew>>,
                           <<"GlobalFree", 1>> >>]

(* ---------------------------- CopyPaletteEx --------------------------- *)
\* a flag loop that starts at 1 (sensitivity of C4)
SetFlagsFromOne(pe, wNumColors, bFlag) ==
  [i \in DOMAIN pe |->
     IF i >= 1 /\ i < wNumColors THEN [pe[i] EXCEPT !.peFlags = bFlag] ELSE pe[i]]

\* for (i = 0; i < wNumColors; i++) pe[i].peFlags = bFlag;
SetFlags(pe, wNumColors, bFlag) ==
  [i \in DOMAIN pe |-> IF i < wNumColors THEN [pe[i] EXCEPT !.peFlags = bFlag] ELSE pe[i]]

CopyPaletteEx(heap, hPal, bFlag, allocOk, hNew) ==
  IF hPal = NULL \/ ~heap[hPal].live
  THEN [ret |-> NULL, heap |-> heap, desc |-> EmptyArr, log |-> <<>>]
  ELSE LET wNumColors == GetObjectCount(heap, hPal)
           c == CopyPalette(heap, hPal, allocOk, hNew)
           hNewPal == c.ret
           \* on a null hNewPal both entry calls fail and pe stays as it was
           pe == IF hNewPal = NULL THEN EmptyArr
                 ELSE GetPaletteEntries(c.heap, hNewPal, wNumColors)
       IN  [ret |-> hNewPal,
            heap |-> SetPaletteEntries(c.heap, hNewPal, wNumColors,
                                       SetFlags(pe, wNumColors, bFlag)),
            desc |-> c.desc, log |-> c.log]

(* ----------------- the screen DC and the system palette --------------- *)
\* C integer division by a positive divisor truncates toward zero
CDiv(a, b) == IF a >= 0 THEN a \div b ELSE 0 - ((0 - a) \div b)

\* GetSystemPaletteUse(hDC): SYSPAL_ERROR on a null DC (and on a device
\* without a palette, whose sysUse is SYSPAL_ERROR already)
GetSystemPaletteUse(use, hdc) == IF hdc = NULL THEN "SYSPAL_ERROR" ELSE use

\* GetSystemPaletteEntries(hDC, 0, n, buf): the system palette's entries over
\* buf; nothing is written on a null DC or past the system palette
GetSystemPaletteEntries(sys, hdc, n, buf) ==
  [i \in DOMAIN buf |->
     IF hdc # NULL /\ i < n /\ i \in DOMAIN sys THEN sys[i] ELSE buf[i]]

ValidPalette(heap, h) == h = DEFAULT_PALETTE \/ (h \in Handles /\ heap[h].live)

\* SelectPalette(hDC, hPal, FALSE): the previously selected palette, or NULL
\* (nothing selected) on a null DC or a handle that names no palette
SelectPalette(dcp, heap, hdc, h) ==
  IF hdc = NULL \/ ~ValidPalette(heap, h)
  THEN [ret |-> NULL, dcPal |-> dcp]
  ELSE [ret |-> dcp, dcPal |-> h]

\* RealizePalette(hDC): the selected logical palette takes the system
\* palette's slots between the reserved static colours
RealizePalette(sys, heap, dcp, hdc, use, dev) ==
  IF hdc = NULL \/ dcp \notin Handles \/ ~dev.RC_PALETTE THEN sys
  ELSE LET low == IF use = "SYSPAL_NOSTATIC" THEN 1
                  ELSE CDiv(GetDeviceCaps(dev, "NUMCOLORS"), 2)
           lp == heap[dcp].pe
       IN  [i \in DOMAIN sys |->
              IF i >= low /\ i < MAXPALETTE - low /\ (i - low) \in DOMAIN lp
              THEN lp[i - low] ELSE sys[i]]

\* DeleteObject(h): frees a palette object that no DC holds; a stock object,
\* a null handle or a selected palette is left alone
DeleteObject(heap, dcp, h) ==
  IF h \in Handles /\ heap[h].live /\ h # dcp
  THEN [heap EXCEPT ![h] = NoPalette] ELSE heap

\* screen DCs a call still holds at its return, from its log
RECURSIVE Held(_)
Held(log) ==
  IF log = <<>> THEN 0
  ELSE Held(Tail(log))
       + (IF Head(log) = <<"GetDC", ScreenDC>> THEN 1
          ELSE IF Head(log) = <<"ReleaseDC", ScreenDC>> THEN 0 - 1 ELSE 0)

(* --------------------------- GetSystemPalette ------------------------- *)
\* a GetSystemPalette that hands back the palette its static hPal remembers
\* instead of reading the system palette again (sensitivity of C8)
GetSystemPaletteCached(heap, dev, sys, hStatic, hdc, allocOk, hNew) ==
  IF hdc = NULL
  THEN [ret |-> NULL, heap |-> heap, desc |-> EmptyArr, static |-> hStatic,
        log |-> << <<"GetDC", NULL>> >>]
  ELSE IF ~GetDeviceCaps(dev, "RC_PALETTE")
  THEN [ret |-> NULL, heap |-> heap, desc |-> EmptyArr, static |-> hStatic,
        log |-> << <<"GetDC", hdc>>, <<"ReleaseDC", hdc>> >>]
  ELSE IF hStatic # NULL /\ heap[hStatic].live
  THEN [ret |-> hStatic, heap |-> heap, desc |-> heap[hStatic].pe, static |-> hStatic,
        log |-> << <<"GetDC", hdc>>, <<"ReleaseDC", hdc>> >>]
  ELSE LET nColors == PalEntriesOnDevice(dev)
       IN  IF ~allocOk
           THEN [ret |-> NULL, heap |-> heap, desc |-> EmptyArr, static |-> hStatic,
                 log |-> << <<"GetDC", hdc>>, <<"GlobalAlloc", NULL>> >>]
           ELSE LET zeroed == [i \in 0 .. nColors - 1 |-> ZeroEntry]
                    palPalEntry == GetSystemPaletteEntries(sys, hdc, nColors, zeroed)
                IN  [ret |-> hNew, heap |-> CreatePalette(heap, palPalEntry, hNew),
                     desc |-> palPalEntry, static |-> hNew,
                     log |-> << <<"GetDC", hdc>>, <<"GlobalAlloc", 1>>,
                                <<"CreatePalette", hNew>>, <<"GlobalFree", 1>>,
                                <<"ReleaseDC", hdc>> >>]

\* a GetSystemPalette that releases the DC before it returns on a failed
\* allocation (sensitivity of C9)
GetSystemPaletteReleasing(heap, dev, sys, hStatic, hdc, allocOk, hNew) ==
  IF hdc = NULL
  THEN [ret |-> NULL, heap |-> heap, desc |-> EmptyArr, static |-> hStatic,
        log |-> << <<"GetDC", NULL>> >>]
  ELSE IF ~GetDeviceCaps(dev, "RC_PALETTE")
  THEN [ret |-> NULL, heap |-> heap, desc |-> EmptyArr, static |-> hStatic,
        log |-> << <<"GetDC", hdc>>, <<"ReleaseDC", hdc>> >>]
  ELSE LET nColors == PalEntriesOnDevice(dev)
       IN  IF ~allocOk
           THEN [ret |-> NULL, heap |-> heap, desc |-> EmptyArr, static |-> hStatic,
                 log |-> << <<"GetDC", hdc>>, <<"GlobalAlloc", NULL>>,
                            <<"ReleaseDC", hdc>> >>]
           ELSE LET zeroed == [i \in 0 .. nColors - 1 |-> ZeroEntry]
                    palPalEntry == GetSystemPaletteEntries(sys, hdc, nColors, zeroed)
                IN  [ret |-> hNew, heap |-> CreatePalette(heap, palPalEntry, hNew),
                     desc |-> palPalEntry, static |-> hNew,
                     log |-> << <<"GetDC", hdc>>, <<"GlobalAlloc", 1>>,
                                <<"CreatePalette", hNew>>, <<"GlobalFree", 1>>,
                                <<"ReleaseDC", hdc>> >>]

GetSystemPalette(heap, dev, sys, hStatic, hdc, allocOk, hNew) ==
  IF hdc = NULL
  THEN [ret |-> NULL, heap |-> heap, desc |-> EmptyArr, static |-> hStatic,
        log |-> << <<"GetDC", NULL>> >>]
  ELSE IF ~GetDeviceCaps(dev, "RC_PALETTE")
  THEN [ret |-> NULL, heap |-> heap, desc |-> EmptyArr, static |-> hStatic,
        log |-> << <<"GetDC", hdc>>, <<"ReleaseDC", hdc>> >>]
  ELSE LET nColors == PalEntriesOnDevice(dev)
       IN  IF ~allocOk
           THEN [ret |-> NULL, heap |-> heap, desc |-> EmptyArr, static |-> hStatic,
                 log |-> << <<"GetDC", hdc>>, <<"GlobalAlloc", NULL>> >>]
           ELSE LET \* GPTR memory is zeroed
                    zeroed == [i \in 0 .. nColors - 1 |-> ZeroEntry]
                    palPalEntry == GetSystemPaletteEntries(sys, hdc, nColors, zeroed)
                    hPal == hNew
                IN  [ret |-> hPal, heap |-> CreatePalette(heap, palPalEntry, hNew),
                     desc |-> palPalEntry, static |-> hPal,
                     log |-> << <<"GetDC", hdc>>, <<"GlobalAlloc", 1>>,
                                <<"CreatePalette", hPal>>, <<"GlobalFree", 1>>,
                                <<"ReleaseDC", hdc>> >>]

(* ------------------------ CreateIdentityPalette ----------------------- *)
\* one caller colour into one entry, marked PC_NOCOLLAPSE
RgbquadToNoCollapse(q) ==
  [peRed |-> q.rgbRed, peGreen |-> q.rgbGreen, peBlue |-> q.rgbBlue,
   peFlags |-> PC_NOCOLLAPSE]

\* the branch with black and white set before the loops instead of after
\* them (sensitivity of C5)
IdentityNoStaticForcedFirst(aEntries, lprgbq, nColors) ==
  LET white == [aEntries EXCEPT ![255] =
                  [peRed |-> 255, peGreen |-> 255, peBlue |-> 255, peFlags |-> 0]]
      black == [white EXCEPT ![0] = ZeroEntry]
  IN  [i \in DOMAIN black |->
         IF i < nColors THEN RgbquadToNoCollapse(lprgbq[i])
         ELSE [black[i] EXCEPT !.peFlags = PC_NOCOLLAPSE]]

\* the SYSPAL_NOSTATIC branch over the zero-initialised aEntries
IdentityNoStatic(aEntries, lprgbq, nColors) ==
  LET filled == [i \in DOMAIN aEntries |->
                   IF i < nColors THEN RgbquadToNoCollapse(lprgbq[i])
                   ELSE [aEntries[i] EXCEPT !.peFlags = PC_NOCOLLAPSE]]
      white == [filled EXCEPT ![255] =
                  [peRed |-> 255, peGreen |-> 255, peBlue |-> 255, peFlags |-> 0]]
  IN  [white EXCEPT ![0] = ZeroEntry]

\* the else branch with the second loop running up to nColors instead of
\* nUsableColors (sensitivity of C11)
IdentityStaticToCount(aEntries, lprgbq, nColors, numColors, sys, hdc) ==
  LET got == GetSystemPaletteEntries(sys, hdc, MAXPALETTE, aEntries)
      nStaticColors == CDiv(numColors, 2)
      i1 == IF nStaticColors > 0 THEN nStaticColors ELSE 0
      i2 == IF nColors > i1 THEN nColors ELSE i1
      ent(i) ==
        LET a == IF i < i1 THEN [got[i] EXCEPT !.peFlags = 0] ELSE got[i]
            b == IF i >= i1 /\ i < nColors THEN RgbquadToNoCollapse(lprgbq[i]) ELSE a
            c == IF i >= i2 /\ i < MAXPALETTE - nStaticColors
                 THEN [b EXCEPT !.peFlags = PC_NOCOLLAPSE] ELSE b
        IN  IF i >= MAXPALETTE - nStaticColors THEN [c EXCEPT !.peFlags = 0] ELSE c
  IN  [i \in DOMAIN aEntries |-> ent(i)]

\* the else branch with the second loop reading the caller's table from its
\* start, lprgbq[i - nStaticColors] (sensitivity of C12)
IdentityStaticShifted(aEntries, lprgbq, nColors, numColors, sys, hdc) ==
  LET got == GetSystemPaletteEntries(sys, hdc, MAXPALETTE, aEntries)
      nStaticColors == CDiv(numColors, 2)
      i1 == IF nStaticColors > 0 THEN nStaticColors ELSE 0
      nUsableColors == nColors - nStaticColors
      i2 == IF nUsableColors > i1 THEN nUsableColors ELSE i1
      ent(i) ==
        LET a == IF i < i1 THEN [got[i] EXCEPT !.peFlags = 0] ELSE got[i]
            b == IF i >= i1 /\ i < nUsableColors
                 THEN RgbquadToNoCollapse(lprgbq[i - nStaticColors]) ELSE a
            c == IF i >= i2 /\ i < MAXPALETTE - nStaticColors
                 THEN [b EXCEPT !.peFlags = PC_NOCOLLAPSE] ELSE b
        IN  IF i >= MAXPALETTE - nStaticColors THEN [c EXCEPT !.peFlags = 0] ELSE c
  IN  [i \in DOMAIN aEntries |-> ent(i)]

\* the other branch: the static colours stay, the caller's colours go between
IdentityStatic(aEntries, lprgbq, nColors, numColors, sys, hdc) ==
  LET got == GetSystemPaletteEntries(sys, hdc, MAXPALETTE, aEntries)
      nStaticColors == CDiv(numColors, 2)
      \* i after the first loop
      i1 == IF nStaticColors > 0 THEN nStaticColors ELSE 0
      nUsableColors == nColors - nStaticColors
      \* i after the second loop
      i2 == IF nUsableColors > i1 THEN nUsableColors ELSE i1
      ent(i) ==
        LET a == IF i < i1 THEN [got[i] EXCEPT !.peFlags = 0] ELSE got[i]
            b == IF i >= i1 /\ i < nUsableColors THEN RgbquadToNoCollapse(lprgbq[i]) ELSE a
            c == IF i >= i2 /\ i < MAXPALETTE - nStaticColors
                 THEN [b EXCEPT !.peFlags = PC_NOCOLLAPSE] ELSE b
        IN  IF i >= MAXPALETTE - nStaticColors THEN [c EXCEPT !.peFlags = 0] ELSE c
  IN  [i \in DOMAIN aEntries |-> ent(i)]

CreateIdentityPalette(heap, dev, use, sys, lprgbq, nColors, hdc, hNew) ==
  LET aEntries == [i \in 0 .. MAXPALETTE - 1 |-> ZeroEntry]
      filled ==
        IF GetSystemPaletteUse(use, hdc) = "SYSPAL_NOSTATIC"
        THEN IdentityNoStatic(aEntries, lprgbq, nColors)
        ELSE IdentityStatic(aEntries, lprgbq, nColors,
                            IF hdc = NULL THEN 0 ELSE GetDeviceCaps(dev, "NUMCOLORS"),
                            sys, hdc)
  IN  [ret |-> hNew, heap |-> CreatePalette(heap, filled, hNew), desc |-> filled,
       log |-> << <<"GetDC", hdc>>, <<"ReleaseDC", hdc>>, <<"CreatePalette", hNew>> >>]

(* ------------------------- ClearSystemPalette ------------------------- *)
BlackEntries ==
  [i \in 0 .. MAXPALETTE - 1 |->
     [peRed |-> 0, peGreen |-> 0, peBlue |-> 0, peFlags |-> PC_NOCOLLAPSE]]

ClearSystemPalette(heap, dcp, sys, use, dev, hdc, hNew) ==
  LET heap1 == CreatePalette(heap, BlackEntries, hNew)
      open == << <<"GetDC", hdc>>, <<"CreatePalette", hNew>> >>
      close == << <<"ReleaseDC", hdc>> >>
  IN  IF hNew = NULL
      THEN [heap |-> heap1, dcPal |-> dcp, sysPal |-> sys, desc |-> BlackEntries,
            temp |-> hNew, log |-> open \o close]
      ELSE LET s1 == SelectPalette(dcp, heap1, hdc, hNew)
               sys1 == RealizePalette(sys, heap1, s1.dcPal, hdc, use, dev)
               s2 == SelectPalette(s1.dcPal, heap1, hdc, s1.ret)
           IN  [heap |-> DeleteObject(heap1, s2.dcPal, s2.ret),
                dcPal |-> s2.dcPal, sysPal |-> sys1, desc |-> BlackEntries,
                temp |-> hNew,
                log |-> open \o << <<"SelectPalette", hNew>>, <<"RealizePalette", hdc>>,
                                   <<"SelectPalette", s1.ret>>,
                                   <<"DeleteObject", s2.ret>> >> \o close]

(* ------------------------------- Init --------------------------------- *)
\* what GetSystemPaletteEntries reads on a palette display before any call
DefaultSysPal ==
  [i \in 0 .. MAXPALETTE - 1 |->
     [peRed |-> (17 + 3 * i) % 256, peGreen |-> (40 + 5 * i) % 256,
      peBlue |-> (251 + 7 * i) % 256,
      peFlags |-> IF i % 3 = 0 THEN 0 ELSE IF i % 3 = 1 THEN 1 ELSE PC_NOCOLLAPSE]]

\* the caller owns one colour table, one count and one flag byte for a run;
\* the display is a palette display in either use, or a 16-colour one
Init ==
  /\ palettes = [h \in Handles |-> NoPalette]
  /\ made = [h \in Handles |-> NoOrigin]
  /\ dcOpen = 0
  /\ dcPal = DEFAULT_PALETTE
  /\ screen \in ScreenDevices
  /\ sysUse \in (IF screen.RC_PALETTE THEN {"SYSPAL_STATIC", "SYSPAL_NOSTATIC"}
                 ELSE {"SYSPAL_ERROR"})
  /\ sysPal = (IF screen.RC_PALETTE THEN DefaultSysPal ELSE EmptyArr)
  /\ hPalStatic = NULL
  /\ arg \in [k : TableIds, n : Counts, flag : FlagBytes]
  /\ call = NoCall

(* ------------------------------ actions ------------------------------- *)
\* what CreatePalette may return: NULL, or a handle that names no object yet
\* (handles are opaque, so the lowest free one stands for any of them)
NewHandles == {NULL} \cup {h \in Free : \A g \in Free : h <= g}
\* the outcomes of GlobalAlloc and of the CreatePalette that follows it
Outcomes ==
  {[allocOk |-> FALSE, hNew |-> NULL]}
    \cup {[allocOk |-> TRUE, hNew |-> h] : h \in NewHandles}
\* what GetDC(NULL) may return: the screen DC while one is left, or NULL
GetDC == {NULL} \cup (IF dcOpen < MaxDC THEN {ScreenDC} ELSE {})

\* the history of the handles after a call of op that left the objects heap2
Made(heap2, op) ==
  [h \in Handles |->
     IF ~heap2[h].live THEN NoOrigin
     ELSE IF ~palettes[h].live THEN op
     ELSE made[h]]

DoPalEntriesOnDevice ==
  \E dev \in Devices :
    /\ call' = [NoCall EXCEPT !.op = "PalEntriesOnDevice", !.pre = Live,
                              !.ret = PalEntriesOnDevice(dev), !.dev = dev]
    /\ UNCHANGED <<palettes, made, dcOpen, dcPal, screen, sysUse, sysPal, hPalStatic, arg>>

\* what a CopyMemory that ends at pe[peTop] can do to the call.  Inside
\* pe[256] nothing.  Past it the bytes land on whatever the build keeps above
\* pe on the stack: nothing that is used again ("none"), the locals hPal and
\* lplgPal, so that the value returned is any handle value ("clobbered"), or
\* the frame, so that the process dies ("fault")
Overruns(peTop) ==
  IF peTop < MAXPALETTE THEN {[ub |-> "none", ret |-> NULL]}
  ELSE {[ub |-> "none", ret |-> NULL], [ub |-> "fault", ret |-> NULL]}
         \cup {[ub |-> "clobbered", ret |-> h] : h \in {NULL} \cup Handles}

DoCreatePaletteFromRGBQUAD ==
  \E o \in Outcomes :
    LET r == CreatePaletteFromRGBQUAD(palettes, RgbTables[arg.k], arg.n, o.allocOk, o.hNew)
    IN  \E u \in Overruns(r.peTop) :
          /\ palettes' = (IF u.ub = "fault" THEN palettes ELSE r.heap)
          /\ made' = Made(palettes', "CreatePaletteFromRGBQUAD")
          /\ call' = [NoCall EXCEPT !.op = "CreatePaletteFromRGBQUAD",
                                    !.allocOk = o.allocOk, !.pre = Live,
                                    !.ret = (IF u.ub = "none" THEN r.ret ELSE u.ret),
                                    !.log = r.log, !.desc = r.desc, !.peTop = r.peTop,
                                    !.ub = u.ub]
          /\ UNCHANGED <<dcOpen, dcPal, screen, sysUse, sysPal, hPalStatic, arg>>

DoCreateRGBQUADFromPalette ==
  \E hPal \in Live :
    LET r == CreateRGBQUADFromPalette(palettes, hPal)
    IN  /\ call' = [NoCall EXCEPT !.op = "CreateRGBQUADFromPalette", !.hArg = hPal,
                                  !.pre = Live, !.argPe = palettes[hPal].pe,
                                  !.ret = r.ret, !.out = r.out]
        /\ UNCHANGED <<palettes, made, dcOpen, dcPal, screen, sysUse, sysPal,
                       hPalStatic, arg>>

DoCreateSpectrumPalette ==
  \E o \in Outcomes :
    LET r == CreateSpectrumPalette(palettes, o.allocOk, o.hNew)
    IN  /\ palettes' = r.heap
        /\ made' = Made(r.heap, "CreateSpectrumPalette")
        /\ call' = [NoCall EXCEPT !.op = "CreateSpectrumPalette", !.allocOk = o.allocOk,
                                  !.pre = Live, !.ret = r.ret, !.log = r.log,
                                  !.desc = r.desc]
        /\ UNCHANGED <<dcOpen, dcPal, screen, sysUse, sysPal, hPalStatic, arg>>

\* the caller passes CopyPalette a palette it holds
DoCopyPalette ==
  \E hPal \in Live, o \in Outcomes :
    LET r == CopyPalette(palettes, hPal, o.allocOk, o.hNew)
    IN  /\ palettes' = r.heap
        /\ made' = Made(r.heap, "CopyPalette")
        /\ call' = [NoCall EXCEPT !.op = "CopyPalette", !.hArg = hPal,
                                  !.allocOk = o.allocOk, !.pre = Live,
                                  !.argPe = palettes[hPal].pe, !.ret = r.ret,
                                  !.log = r.log, !.desc = r.desc]
        /\ UNCHANGED <<dcOpen, dcPal, screen, sysUse, sysPal, hPalStatic, arg>>

\* CopyPaletteEx checks its handle, so it is also given NULL and stale handles
DoCopyPaletteEx ==
  \E hPal \in {NULL} \cup Handles, o \in Outcomes :
    LET r == CopyPaletteEx(palettes, hPal, arg.flag, o.allocOk, o.hNew)
    IN  /\ palettes' = r.heap
        /\ made' = Made(r.heap, "CopyPaletteEx")
        /\ call' = [NoCall EXCEPT !.op = "CopyPaletteEx", !.hArg = hPal,
                                  !.allocOk = o.allocOk, !.pre = Live,
                                  !.argPe = IF hPal \in Live THEN palettes[hPal].pe
                                            ELSE EmptyArr,
                                  !.ret = r.ret, !.log = r.log, !.desc = r.desc]
        /\ UNCHANGED <<dcOpen, dcPal, screen, sysUse, sysPal, hPalStatic, arg>>

DoGetSystemPalette ==
  \E hdc \in GetDC, o \in Outcomes :
    LET r == GetSystemPalette(palettes, screen, sysPal, hPalStatic, hdc, o.allocOk, o.hNew)
    IN  /\ palettes' = r.heap
        /\ made' = Made(r.heap, "GetSystemPalette")
        /\ dcOpen' = dcOpen + Held(r.log)
        /\ hPalStatic' = r.static
        /\ call' = [NoCall EXCEPT !.op = "GetSystemPalette", !.allocOk = o.allocOk,
                                  !.hdc = hdc, !.dev = screen, !.hArg = hPalStatic,
                                  !.pre = Live, !.ret = r.ret, !.log = r.log,
                                  !.desc = r.desc]
        /\ UNCHANGED <<dcPal, screen, sysUse, sysPal, arg>>

DoCreateIdentityPalette ==
  \E hdc \in GetDC, hNew \in NewHandles :
    LET r == CreateIdentityPalette(palettes, screen, sysUse, sysPal, RgbTables[arg.k],
                                   arg.n, hdc, hNew)
    IN  /\ palettes' = r.heap
        /\ made' = Made(r.heap, "CreateIdentityPalette")
        /\ dcOpen' = dcOpen + Held(r.log)
        /\ call' = [NoCall EXCEPT !.op = "CreateIdentityPalette",
                                  !.hdc = hdc, !.dev = screen,
                                  !.pre = Live, !.ret = r.ret, !.log = r.log,
                                  !.desc = r.desc]
        /\ UNCHANGED <<dcPal, screen, sysUse, sysPal, hPalStatic, arg>>

DoClearSystemPalette ==
  \E hdc \in GetDC, hNew \in NewHandles :
    LET r == ClearSystemPalette(palettes, dcPal, sysPal, sysUse, screen, hdc, hNew)
    IN  /\ palettes' = r.heap
        /\ made' = Made(r.heap, "ClearSystemPalette")
        /\ dcOpen' = dcOpen + Held(r.log)
        /\ dcPal' = r.dcPal
        /\ sysPal' = r.sysPal
        /\ call' = [NoCall EXCEPT !.op = "ClearSystemPalette", !.pre = Live,
                                  !.hdc = hdc, !.dev = screen,
                                  !.hArg = dcPal, !.ret = r.temp, !.log = r.log,
                                  !.desc = r.desc]
        /\ UNCHANGED <<screen, sysUse, hPalStatic, arg>>

\* the caller destroys a palette it holds
DoDeleteObject ==
  \E h \in Live :
    LET heap2 == DeleteObject(palettes, dcPal, h)
    IN  /\ palettes' = heap2
        /\ made' = Made(heap2, "none")
        /\ call' = [NoCall EXCEPT !.op = "DeleteObject", !.hArg = h, !.pre = Live,
                                  !.argPe = palettes[h].pe]
        /\ UNCHANGED <<dcOpen, dcPal, screen, sysUse, sysPal, hPalStatic, arg>>

Next ==
  \/ DoPalEntriesOnDevice
  \/ DoCreatePaletteFromRGBQUAD
  \/ DoCreateRGBQUADFromPalette
  \/ DoGetSystemPalette
  \/ DoCreateSpectrumPalette
  \/ DoCopyPalette
  \/ DoCopyPaletteEx
  \/ DoCreateIdentityPalette
  \/ DoClearSystemPalette
  \/ DoDeleteObject

Spec == Init /\ [][Next]_vars

(* ---------------- the helpers, group by group ------------------------- *)
\* Spec lets every helper run against every other.  The groups below keep the
\* helpers that work on the same objects together; the data a group never
\* reads is fixed in its initial condition.
PaletteDisplay == screen = PaletteDevice(20) /\ sysUse = "SYSPAL_STATIC"

\* colour tables into palettes and back, and the spectrum palette
InitTable == Init /\ PaletteDisplay /\ arg.flag = 0
NextTable ==
  \/ DoCreatePaletteFromRGBQUAD
  \/ DoCreateRGBQUADFromPalette
  \/ DoCreateSpectrumPalette
SpecTable == InitTable /\ [][NextTable]_vars

\* copies of palettes
InitCopy == Init /\ PaletteDisplay /\ arg.k = 0
NextCopy ==
  \/ DoCreatePaletteFromRGBQUAD
  \/ DoCopyPalette
  \/ DoCopyPaletteEx
  \/ DoDeleteObject
SpecCopy == InitCopy /\ [][NextCopy]_vars

\* identity palettes, on every display, from every table
InitIdentity == Init /\ arg.flag = 0
NextIdentity ==
  \/ DoCreateIdentityPalette
  \/ DoClearSystemPalette
SpecIdentity == InitIdentity /\ [][NextIdentity]_vars

\* the system palette: its size, its snapshot, its clearing, on every display
InitSystem == Init /\ arg = [k |-> 0, n |-> 1, flag |-> 0]
NextSystem ==
  \/ DoPalEntriesOnDevice
  \/ DoGetSystemPalette
  \/ DoClearSystemPalette
SpecSystem == InitSystem /\ [][NextSystem]_vars

\* the helpers that take the screen DC, on every display
InitDevice == Init /\ arg = [k |-> 0, n |-> 1, flag |-> 0]
NextDevice ==
  \/ DoGetSystemPalette
  \/ DoCreateIdentityPalette
  \/ DoClearSystemPalette
SpecDevice == InitDevice /\ [][NextDevice]_vars

\* identity palettes on palette displays in SYSPAL_STATIC use that report
\* 0, 20, 21 and 256 static colours, from counts that end below, inside and
\* at the top of the table
StaticDevices == {PaletteDevice(0), PaletteDevice(20), PaletteDevice(21),
                  PaletteDevice(MAXPALETTE)}
StaticCounts == Counts \cup {MAXPALETTE \div 2}
InitStatic ==
  /\ palettes = [h \in Handles |-> NoPalette]
  /\ made = [h \in Handles |-> NoOrigin]
  /\ dcOpen = 0
  /\ dcPal = DEFAULT_PALETTE
  /\ screen \in StaticDevices
  /\ sysUse = "SYSPAL_STATIC"
  /\ sysPal = DefaultSysPal
  /\ hPalStatic = NULL
  /\ arg \in [k : TableIds, n : StaticCounts, flag : {0}]
  /\ call = NoCall
NextStatic ==
  \/ DoCreateIdentityPalette
  \/ DoClearSystemPalette
SpecStatic == InitStatic /\ [][NextStatic]_vars

\* palettes of more entries than MAXPALETTE; after a fault no call is made
WideCounts == MAXPALETTE - 1 .. MAXPALETTE + MaxOver
Running == call.ub # "fault"
InitWide ==
  /\ palettes = [h \in Handles |-> NoPalette]
  /\ made = [h \in Handles |-> NoOrigin]
  /\ dcOpen = 0
  /\ dcPal = DEFAULT_PALETTE
  /\ PaletteDisplay
  /\ sysPal = DefaultSysPal
  /\ hPalStatic = NULL
  /\ arg \in [k : TableIds, n : WideCounts, flag : {0}]
  /\ call = NoCall
WideCreatePaletteFromRGBQUAD == Running /\ DoCreatePaletteFromRGBQUAD
WideCreateRGBQUADFromPalette == Running /\ DoCreateRGBQUADFromPalette
WideDeleteObject == Running /\ DoDeleteObject
NextWide ==
  \/ WideCreatePaletteFromRGBQUAD
  \/ WideCreateRGBQUADFromPalette
  \/ WideDeleteObject
SpecWide == InitWide /\ [][NextWide]_vars

(* ------------------------------ properties ---------------------------- *)
\* the red, green and blue of an RGBQUAD and of a PALETTEENTRY
RgbOfQuad(q) == <<q.rgbRed, q.rgbGreen, q.rgbBlue>>
RgbOfEntry(e) == <<e.peRed, e.peGreen, e.peBlue>>

\* C1: CreateRGBQUADFromPalette on a palette that CreatePaletteFromRGBQUAD
\* built from the caller's table with a count n in 1..256 returns n, and for
\* every index below n the red, green and blue it writes are the table's,
\* with the reserved byte 0.
C1_RoundTrip ==
  (/\ call.op = "CreateRGBQUADFromPalette"
   /\ made[call.hArg] = "CreatePaletteFromRGBQUAD"
   /\ arg.n \in 1 .. MAXPALETTE)
    => /\ call.ret = arg.n
       /\ DOMAIN call.out = 0 .. arg.n - 1
       /\ \A i \in 0 .. arg.n - 1 :
            /\ RgbOfQuad(call.out[i]) = RgbOfQuad(RgbTables[arg.k][i])
            /\ call.out[i].rgbReserved = 0

\* a full table of 256 colours has come back from a palette made of it
C1_Witness ==
  /\ call.op = "CreateRGBQUADFromPalette"
  /\ made[call.hArg] = "CreatePaletteFromRGBQUAD"
  /\ arg.n = MAXPALETTE
  /\ call.ret = MAXPALETTE
  /\ RgbOfQuad(call.out[255]) = RgbOfQuad(RgbTables[arg.k][255])

\* C2: whenever its allocation succeeds CreateSpectrumPalette describes exactly
\* 256 entries, entry i being red 32*(i mod 8), green 32*((i div 8) mod 8),
\* blue 64*(i div 64), flags 0; the 256 colours are pairwise distinct, and a
\* palette that CreatePalette makes of them holds exactly these entries.
C2_Spectrum ==
  (call.op = "CreateSpectrumPalette" /\ call.allocOk)
    => /\ DOMAIN call.desc = 0 .. 255
       /\ \A i \in 0 .. 255 :
            call.desc[i] = [peRed   |-> 32 * (i % 8),
                            peGreen |-> 32 * ((i \div 8) % 8),
                            peBlue  |-> 64 * (i \div 64),
                            peFlags |-> 0]
       /\ Cardinality({RgbOfEntry(call.desc[i]) : i \in 0 .. 255}) = 256
       /\ call.ret # NULL => palettes[call.ret] = [live |-> TRUE, pe |-> call.desc]

\* a spectrum palette has been made
C2_Witness ==
  /\ call.op = "CreateSpectrumPalette"
  /\ call.ret # NULL
  /\ RgbOfEntry(palettes[call.ret].pe[8]) = <<0, 32, 0>>
  /\ RgbOfEntry(palettes[call.ret].pe[255]) = <<224, 224, 192>>

\* C3: when CopyPalette returns a palette, its handle is none of the handles
\* live before the call (the source's among them), the new palette has the
\* source's entry count and, index by index, its red, green, blue and flags,
\* and the source is as it was.
C3_CopyPalette ==
  (call.op = "CopyPalette" /\ call.ret # NULL)
    => /\ call.allocOk
       /\ call.ret \notin call.pre
       /\ call.ret # call.hArg
       /\ palettes[call.ret].live
       /\ palettes[call.ret].pe = call.argPe
       /\ palettes[call.hArg] = [live |-> TRUE, pe |-> call.argPe]

\* a palette of 256 entries with non-zero flags has been copied
C3_Witness ==
  /\ call.op = "CopyPalette"
  /\ call.ret # NULL
  /\ DOMAIN call.argPe = 0 .. 255
  /\ call.argPe[0].peFlags # 0
  /\ palettes[call.ret].pe[0].peFlags = call.argPe[0].peFlags

\* C4: when CopyPaletteEx, given a non-null palette and the flag byte F,
\* returns a palette, that palette has the source's entry count, every entry's
\* flags are F, and every entry's red, green and blue are the source's.
C4_CopyPaletteEx ==
  (call.op = "CopyPaletteEx" /\ call.hArg # NULL /\ call.ret # NULL)
    => /\ call.ret \notin call.pre
       /\ DOMAIN palettes[call.ret].pe = DOMAIN call.argPe
       /\ \A i \in DOMAIN call.argPe :
            /\ palettes[call.ret].pe[i].peFlags = arg.flag
            /\ RgbOfEntry(palettes[call.ret].pe[i]) = RgbOfEntry(call.argPe[i])
       /\ palettes[call.hArg] = [live |-> TRUE, pe |-> call.argPe]

\* a palette of 256 entries whose flags were another byte has been copied
\* with the flag byte PC_NOCOLLAPSE
C4_Witness ==
  /\ call.op = "CopyPaletteEx"
  /\ call.ret # NULL
  /\ arg.flag = PC_NOCOLLAPSE
  /\ DOMAIN call.argPe = 0 .. 255
  /\ call.argPe[0].peFlags = 0
  /\ palettes[call.ret].pe[0].peFlags = PC_NOCOLLAPSE

WhiteEntry == [peRed |-> 255, peGreen |-> 255, peBlue |-> 255, peFlags |-> 0]

\* C5: whenever the screen DC's system palette use is SYSPAL_NOSTATIC, the
\* 256-entry descriptor that CreateIdentityPalette hands to CreatePalette has
\* entry 0 = (0, 0, 0, flags 0) and entry 255 = (255, 255, 255, flags 0), for
\* every colour table and every count in 0..256, whatever the table holds at
\* 0 and 255; a palette made of the descriptor holds the same entries.
C5_IdentityNoStatic ==
  (/\ call.op = "CreateIdentityPalette"
   /\ GetSystemPaletteUse(sysUse, call.hdc) = "SYSPAL_NOSTATIC"
   /\ arg.n \in 0 .. MAXPALETTE)
    => /\ DOMAIN call.desc = 0 .. 255
       /\ call.desc[0] = ZeroEntry
       /\ call.desc[255] = WhiteEntry
       /\ call.ret # NULL => palettes[call.ret].pe = call.desc

\* an identity palette has been made under SYSPAL_NOSTATIC of a full table
\* whose colours 0 and 255 are neither black nor white
C5_Witness ==
  /\ call.op = "CreateIdentityPalette"
  /\ GetSystemPaletteUse(sysUse, call.hdc) = "SYSPAL_NOSTATIC"
  /\ arg.n = MAXPALETTE
  /\ call.ret # NULL
  /\ RgbOfQuad(RgbTables[arg.k][0]) # <<0, 0, 0>>
  /\ RgbOfQuad(RgbTables[arg.k][255]) # <<255, 255, 255>>
  /\ palettes[call.ret].pe[0] = ZeroEntry
  /\ palettes[call.ret].pe[255] = WhiteEntry
  /\ palettes[call.ret].pe[1] = RgbquadToNoCollapse(RgbTables[arg.k][1])

\* C6: when ClearSystemPalette's CreatePalette succeeds, the call selects the
\* temporary palette into the screen DC, realizes it, selects the previous
\* palette back, deletes the temporary palette and releases the DC, in this
\* order; at return the DC holds the palette it held before, the temporary
\* palette is gone and the previous one is not.  When CreatePalette fails, the
\* call only acquires and releases the DC.
C6_ClearSequence ==
  call.op = "ClearSystemPalette"
    => IF call.ret # NULL
       THEN /\ call.log = << <<"GetDC", call.hdc>>, <<"CreatePalette", call.ret>>,
                             <<"SelectPalette", call.ret>>,
                             <<"RealizePalette", call.hdc>>,
                             <<"SelectPalette", call.hArg>>,
                             <<"DeleteObject", call.ret>>,
                             <<"ReleaseDC", call.hdc>> >>
            /\ dcPal = call.hArg
            /\ ~palettes[call.ret].live
            /\ ValidPalette(palettes, call.hArg)
            /\ Held(call.log) = 0
       ELSE /\ call.log = << <<"GetDC", call.hdc>>, <<"CreatePalette", NULL>>,
                             <<"ReleaseDC", call.hdc>> >>
            /\ Held(call.log) = 0

\* what holds of ClearSystemPalette: the sequence above whenever GetDC gave
\* the call a screen DC
ClearSequenceWithDC ==
  (call.op = "ClearSystemPalette" /\ call.hdc # NULL) => C6_ClearSequence

\* a ClearSystemPalette without a screen DC whose temporary palette is still
\* alive at return
C6_Failing ==
  /\ call.op = "ClearSystemPalette"
  /\ call.hdc = NULL
  /\ call.ret # NULL
  /\ palettes[call.ret].live
  /\ <<"DeleteObject", NULL>> \in {call.log[i] : i \in DOMAIN call.log}

\* C7: PalEntriesOnDevice returns the device's SIZEPALETTE when that is not 0
\* and its NUMCOLORS otherwise; every call returns a count.
C7_PalEntriesOnDevice ==
  call.op = "PalEntriesOnDevice"
    => /\ call.ret \in Int
       /\ call.ret = (IF call.dev.SIZEPALETTE # 0 THEN call.dev.SIZEPALETTE
                      ELSE call.dev.NUMCOLORS)

\* a device without a palette has been asked: the count is its NUMCOLORS
C7_Witness ==
  /\ call.op = "PalEntriesOnDevice"
  /\ call.dev.SIZEPALETTE = 0
  /\ call.dev.NUMCOLORS = 16
  /\ call.ret = 16

\* the entry count GetSystemPalette asks for on the device of the call
SystemCount ==
  IF call.dev.SIZEPALETTE # 0 THEN call.dev.SIZEPALETTE ELSE call.dev.NUMCOLORS

\* a palette that the last call has newly made of the system palette
SystemSnapshot ==
  /\ call.ret \in Handles
  /\ call.ret \notin call.pre
  /\ palettes[call.ret].live
  /\ DOMAIN palettes[call.ret].pe = 0 .. SystemCount - 1
  /\ \A i \in 0 .. SystemCount - 1 : palettes[call.ret].pe[i] = sysPal[i]

\* C8: in any sequence of calls, GetSystemPalette's result is decided by the
\* device, the system palette and the outcomes of this call alone, whatever
\* the static hPal holds from earlier calls: NULL when GetDC gives no DC or
\* the device lacks RC_PALETTE; otherwise, when GlobalAlloc and CreatePalette
\* succeed, a newly made palette of PalEntriesOnDevice entries, entry i equal
\* to the system palette's entry i (and NULL when one of the two fails).
C8_SystemPalette ==
  call.op = "GetSystemPalette"
    => IF call.hdc = NULL \/ ~call.dev.RC_PALETTE
       THEN call.ret = NULL
       ELSE IF ~call.allocOk
               \/ <<"CreatePalette", NULL>> \in {call.log[i] : i \in DOMAIN call.log}
       THEN call.ret = NULL
       ELSE SystemSnapshot

\* a second snapshot, taken while the first one is alive and after the system
\* palette has changed: the static hPal names the first, the result is new
\* and differs from it
C8_Witness ==
  /\ call.op = "GetSystemPalette"
  /\ call.ret # NULL
  /\ call.hArg \in Handles
  /\ call.hArg # call.ret
  /\ palettes[call.hArg].live
  /\ made[call.hArg] = "GetSystemPalette"
  /\ palettes[call.hArg].pe # palettes[call.ret].pe

\* how often the event e is in a call's log
Times(log, e) == Cardinality({i \in DOMAIN log : log[i] = e})

\* the one path that keeps its DC: GetSystemPalette when GlobalAlloc fails
\* after GetDC and the RC_PALETTE test have succeeded
AllocFailurePath ==
  /\ call.op = "GetSystemPalette"
  /\ call.hdc # NULL
  /\ call.dev.RC_PALETTE
  /\ ~call.allocOk

\* C9: at return from GetSystemPalette, CreateIdentityPalette and
\* ClearSystemPalette the screen DC the call acquired has been released
\* exactly once, after it was acquired, on every path but one: on
\* GetSystemPalette's failed allocation the DC is acquired and never released.
C9_DcPairing ==
  call.op \in {"GetSystemPalette", "CreateIdentityPalette", "ClearSystemPalette"}
    => LET got == Times(call.log, <<"GetDC", ScreenDC>>)
           released == Times(call.log, <<"ReleaseDC", ScreenDC>>)
       IN  /\ got = (IF call.hdc # NULL THEN 1 ELSE 0)
           /\ released = (IF AllocFailurePath THEN 0 ELSE got)
           /\ Held(call.log) = (IF AllocFailurePath THEN 1 ELSE 0)
           /\ \A i, j \in DOMAIN call.log :
                (call.log[i] = <<"GetDC", ScreenDC>>
                 /\ call.log[j] = <<"ReleaseDC", ScreenDC>>) => i < j
           /\ AllocFailurePath => dcOpen >= 1

\* GetSystemPalette has returned from a failed allocation with the DC still held
C9_Witness ==
  /\ AllocFailurePath
  /\ call.ret = NULL
  /\ Held(call.log) = 1
  /\ dcOpen = 1

\* C10, as stated: CreatePaletteFromRGBQUAD and CreateSpectrumPalette return a
\* non-null valid palette on every call whose allocation succeeds.
C10_AsStated ==
  (call.op \in {"CreatePaletteFromRGBQUAD", "CreateSpectrumPalette"} /\ call.allocOk)
    => /\ call.ret # NULL
       /\ palettes[call.ret].live

\* C10: CreatePaletteFromRGBQUAD and CreateSpectrumPalette return NULL only if
\* GlobalAlloc fails or CreatePalette fails: they return what CreatePalette
\* returns, a new palette holding the descriptor's entries when it is not
\* NULL, and the descriptor is freed after CreatePalette on every call that
\* allocated it.
C10_NullOnlyOnFailure ==
  call.op \in {"CreatePaletteFromRGBQUAD", "CreateSpectrumPalette"}
    => IF ~call.allocOk
       THEN call.ret = NULL /\ call.log = << <<"GlobalAlloc", NULL>> >>
       ELSE /\ call.log = << <<"GlobalAlloc", 1>>, <<"CreatePalette", call.ret>>,
                             <<"GlobalFree", 1>> >>
            /\ call.ret # NULL
                 => /\ call.ret \in Handles \ call.pre
                    /\ palettes[call.ret] = [live |-> TRUE, pe |-> call.desc]

\* a builder has come back with NULL although its allocation succeeded, the
\* descriptor freed
C10_Witness ==
  /\ call.op \in {"CreatePaletteFromRGBQUAD", "CreateSpectrumPalette"}
  /\ call.allocOk
  /\ call.ret = NULL
  /\ <<"GlobalFree", 1>> \in {call.log[i] : i \in DOMAIN call.log}

\* the premise of C11 and C12: the call's GetSystemPaletteUse reports
\* SYSPAL_STATIC, the device reports 0..256 static colours, the count is 0..256
StaticPolicy ==
  /\ call.op = "CreateIdentityPalette"
  /\ GetSystemPaletteUse(sysUse, call.hdc) = "SYSPAL_STATIC"
  /\ call.dev.NUMCOLORS \in 0 .. MAXPALETTE
  /\ arg.n \in 0 .. MAXPALETTE
\* N/2, the size of each reserved half
HalfStatic == call.dev.NUMCOLORS \div 2
ReservedHalves ==
  (0 .. HalfStatic - 1) \cup (MAXPALETTE - HalfStatic .. MAXPALETTE - 1)

\* C11: under SYSPAL_STATIC with N static colours and a count in 0..256, the
\* descriptor CreateIdentityPalette builds has flags 0 exactly at the indices
\* 0..N/2-1 and 256-N/2..255 and PC_NOCOLLAPSE at every other index, and the
\* red, green and blue in both reserved halves are the system palette's at the
\* same index, never the caller's.
C11_StaticHalves ==
  StaticPolicy
    => /\ DOMAIN call.desc = 0 .. MAXPALETTE - 1
       /\ \A i \in 0 .. MAXPALETTE - 1 :
            call.desc[i].peFlags = (IF i \in ReservedHalves THEN 0 ELSE PC_NOCOLLAPSE)
       /\ \A i \in ReservedHalves :
            RgbOfEntry(call.desc[i]) = RgbOfEntry(sysPal[i])

\* an identity palette has been made of a full table on a display with 20
\* static colours: the table's colours 0 and 255 differ from the system
\* palette's, and entries 9 and 246 are the system palette's with flags 0
C11_Witness ==
  /\ StaticPolicy
  /\ call.dev.NUMCOLORS = 20
  /\ arg.n = MAXPALETTE
  /\ call.ret # NULL
  /\ RgbOfQuad(RgbTables[arg.k][9]) # RgbOfEntry(sysPal[9])
  /\ RgbOfQuad(RgbTables[arg.k][246]) # RgbOfEntry(sysPal[246])
  /\ palettes[call.ret].pe[9] = [sysPal[9] EXCEPT !.peFlags = 0]
  /\ palettes[call.ret].pe[246] = [sysPal[246] EXCEPT !.peFlags = 0]
  /\ palettes[call.ret].pe[10].peFlags = PC_NOCOLLAPSE

\* the middle indices the caller's table fills, and the middle indices left
CallerMiddle == HalfStatic .. arg.n - HalfStatic - 1
RestOfMiddle ==
  {i \in HalfStatic .. MAXPALETTE - HalfStatic - 1 : i >= arg.n - HalfStatic}

\* C12, as stated: under SYSPAL_STATIC with N static colours and a count in
\* 0..256, every index i with N/2 <= i < count - N/2 holds the caller's colour
\* i with PC_NOCOLLAPSE, and every other middle index below 256 - N/2 holds
\* (0, 0, 0) with PC_NOCOLLAPSE.
C12_AsStated ==
  StaticPolicy
    => /\ \A i \in CallerMiddle :
            call.desc[i] = RgbquadToNoCollapse(RgbTables[arg.k][i])
       /\ \A i \in RestOfMiddle :
            call.desc[i] = [ZeroEntry EXCEPT !.peFlags = PC_NOCOLLAPSE]

\* C12: under SYSPAL_STATIC with N static colours and a count in 0..256, every
\* index i with N/2 <= i < count - N/2 holds the caller's colour i with
\* PC_NOCOLLAPSE, and every other middle index below 256 - N/2 holds the red,
\* green and blue of the system palette's entry i with PC_NOCOLLAPSE.
C12_StaticMiddle ==
  StaticPolicy
    => /\ \A i \in CallerMiddle :
            call.desc[i] = RgbquadToNoCollapse(RgbTables[arg.k][i])
       /\ \A i \in RestOfMiddle :
            call.desc[i] = [sysPal[i] EXCEPT !.peFlags = PC_NOCOLLAPSE]

\* an identity palette has been made of 128 colours on a display with 20
\* static colours: entries 10..117 are the caller's, entry 118 is the system
\* palette's colour, which is not black
C12_Witness ==
  /\ StaticPolicy
  /\ call.dev.NUMCOLORS = 20
  /\ arg.n = MAXPALETTE \div 2
  /\ call.ret # NULL
  /\ palettes[call.ret].pe[10] = RgbquadToNoCollapse(RgbTables[arg.k][10])
  /\ palettes[call.ret].pe[117] = RgbquadToNoCollapse(RgbTables[arg.k][117])
  /\ RgbOfEntry(sysPal[118]) # <<0, 0, 0>>
  /\ palettes[call.ret].pe[118] = [sysPal[118] EXCEPT !.peFlags = PC_NOCOLLAPSE]

\* C13: every write of CreatePaletteFromRGBQUAD stays inside the buffer it
\* targets, for every count: the fill loop writes the descriptor's entries
\* 0..wEntries-1 only, and the copy into the local pe[256] never goes above
\* pe[255].
C13_MemorySafe ==
  call.op = "CreatePaletteFromRGBQUAD"
    => /\ call.allocOk => DOMAIN call.desc = 0 .. arg.n - 1
       /\ call.peTop <= MAXPALETTE - 1
       /\ call.ub = "none"

\* a call with 257 colours has written pe[256]
C13_Failing ==
  /\ call.op = "CreatePaletteFromRGBQUAD"
  /\ arg.n = MAXPALETTE + 1
  /\ call.allocOk
  /\ call.peTop = MAXPALETTE

\* what holds of CreatePaletteFromRGBQUAD: no write leaves its buffer when the
\* count is at most 256
MemorySafeUpTo256 ==
  (call.op = "CreatePaletteFromRGBQUAD" /\ arg.n <= MAXPALETTE) => C13_MemorySafe

====
